---- MODULE Spec2Model ----
(***************************************************************************)
(* PyScriptBridge: the PysBridge registry of src/unnamed/part_000 (one     *)
(* readiness promise per function name), the PysBridge class of            *)
(* src/assets/pysbridge.js (one readiness promise per instance) and the    *)
(* flat pys_* functions of src/assets/pysbridge.js; each with its state,   *)
(* ref and function stores.                                                *)
(*                                                                         *)
(* JavaScript runs one job at a time.  A public operation is one atomic    *)
(* action.  A promise continuation is a microtask: resolving a promise     *)
(* appends its reactions to the microtask queue `mq` in the order they     *)
(* were registered, and RunMicrotask runs the head of the queue.  Host     *)
(* code may issue several operations in one job (no microtask between      *)
(* them) and a continuation may itself issue operations, so operations and *)
(* microtasks interleave freely, while the queue itself stays FIFO.        *)
(***************************************************************************)
EXTENDS Naturals, Sequences, FiniteSets, TLC

\* ------------------------------------------------------------------ bounds
MaxTasks == 2        \* call_func / pys_call_func / pys_wait invocations per run
MaxInsts == 2        \* PysBridge objects constructed per run
MaxSets == 2         \* setter invocations (set_state / pys_set) per run

\* ------------------------------------------------------------------ values
pysBridgeGlobalName == "$pys_bridge_global_name"
PRIVATE_CONSTRUCTOR_KEY == "Symbol()"
Undefined == "undefined"
NoErr == "none"
NoInst == 0

\* Ids and names range over ordinary keys: strings that are not property
\* names a plain object inherits ("constructor", "toString", ...), for which
\* a lookup in the {} stores would find the inherited property.

\* typeof v === "function" holds exactly of the members of Fns.
Fns == {"fn1", "fn2"}
NotFn == "42"
Procedures == Fns \cup {NotFn}
IsFunction(v) == v \in Fns

Names == {"f", "g"}
ArgLists == {<<>>, <<1, 2>>}
NoArgs == <<0>>

\* An argument with its typeof: get_uuid_ref and pys_call_func branch on it.
Str(s) == [type |-> "string", v |-> s]
NonStr == [type |-> "number", v |-> "42"]
IdInputs == {Str(""), Str("a"), Str(pysBridgeGlobalName), NonStr}
IdKeys == {"", "a", pysBridgeGlobalName}

\* the values a getter, a ref or the argument of set_state may be
Vals == {"1", "5", Undefined}
\* the setters handed to add_state: a procedure, and a value that is not one
Setters == {"fn1", NotFn}

\* A run loads one of the three APIs and draws its arguments from one input
\* alphabet: ids handed to create_pys_bridge, ids handed to `new PysBridge`
\* directly, ids looked up with get / has_pys_bridge, function / state / ref names, readiness signal names (flat API),
\* argument lists and procedures, and (store runs) values and setters.  Both files define globalThis.PysBridge, so one class is in
\* effect at a time; the flat functions share no state with the class.
Alphabet(ids, newids, names, sigs, args, procs) ==
    [ids |-> ids, newids |-> newids, names |-> names, sigs |-> sigs,
     args |-> args, procs |-> procs, vals |-> {}, setters |-> {}, lookups |-> {},
     gates |-> {Str(s) : s \in sigs} \cup {Str(""), NonStr}]
\* the same run with every pys_call_func gated by one of its signals
Gated(a) == [a EXCEPT !.gates = {Str(s) : s \in a.sigs}]
\* a run that exercises the instance manager only
RegistryAlphabet(ids) ==
    [ids |-> ids, newids |-> ids, names |-> {}, sigs |-> {},
     args |-> {}, procs |-> {}, vals |-> {}, setters |-> {}, lookups |-> ids,
     gates |-> {}]
StoreAlphabet(ids, names, vals, setters) ==
    [ids |-> ids, newids |-> {}, names |-> names, sigs |-> {},
     args |-> {}, procs |-> {}, vals |-> vals, setters |-> setters, lookups |-> {},
     gates |-> {}]
Worlds ==
    {<<"named", RegistryAlphabet(IdInputs)>>,
     <<"named", Alphabet({Str("a")}, {}, {"f"}, {}, {<<1, 2>>}, Procedures)>>,
     <<"named", Alphabet({Str("a")}, {}, {"f", "g"}, {}, {<<1, 2>>}, {"fn1"})>>,
     <<"named", Alphabet({Str("a")}, {}, {"f"}, {}, ArgLists, {"fn1"})>>,
     <<"asset", RegistryAlphabet(IdInputs)>>,
     <<"asset", Alphabet({Str("a")}, {}, {"f"}, {}, {<<1, 2>>}, {"fn1", NotFn})>>,
     <<"flat", Gated(Alphabet({}, {}, {"f", "g"}, {"f"}, {<<1, 2>>}, {"fn1"}))>>,
     <<"flat", Alphabet({}, {}, {"f"}, {"f"}, {<<1, 2>>}, {"fn1"})>>,
     <<"flat", Alphabet({}, {}, {}, {"f", "g"}, {}, {})>>,
     <<"named", StoreAlphabet({Str("a"), Str("")}, {"f"}, {"1", Undefined}, Setters)>>,
     <<"named", StoreAlphabet({Str("a")}, {"f", "g"}, {"1", "5"}, {"fn1"})>>,
     <<"asset", StoreAlphabet({Str("a")}, {"f"}, Vals, Setters)>>,
     <<"flat", StoreAlphabet({}, {"f"}, Vals, Setters)>>,
     <<"named", Alphabet({Str("a"), Str("")}, {}, {"f"}, {}, {<<1, 2>>}, {"fn1"})>>,
     <<"asset", Alphabet({Str("a")}, {}, {"f", "g"}, {}, {<<1, 2>>}, {"fn1"})>>}

\* what an operation handed back to its caller
RetUndef == [k |-> "undefined", i |-> 0]
RetInst(i) == [k |-> "instance", i |-> i]
RetBool(b) == [k |-> IF b THEN "true" ELSE "false", i |-> 0]
RetPromise == [k |-> "promise", i |-> 0]
\* a stored value handed back; the undefined value is RetUndef
RetVal(v) == [k |-> v, i |-> 0]

VARIABLES
    api,          \* which API is loaded and driven: "named" | "asset" | "flat"
    inputs,       \* the input alphabet of this run
    pysBridge,    \* static #pysBridge: normalized id -> instance (NoInst = undefined)
    insts,        \* the PysBridge objects constructed so far; identity = index
    pysPromises,  \* globalThis.__pysPromises
    pysFunctions, \* globalThis.__pysFunctions
    pysStates,    \* globalThis.__pysStates
    pysRefs,      \* globalThis.__pysRefs
    pysAdded,     \* history of pys_register_state / pys_register_ref calls
    setterCalls,  \* the setter invocations so far, in order: [by, v]
    tasks,        \* the async invocations started so far
    mq,           \* the microtask queue
    last          \* the last synchronous operation and its outcome: [op, err, ret]

vars == <<api, inputs, pysBridge, insts, pysPromises, pysFunctions,
          pysStates, pysRefs, pysAdded, setterCalls, tasks, mq, last>>

\* ---------------------------------------------------------------- promises
\* A slot that holds no promise yet (typeof ... === "undefined").
NoPromise == [state |-> "undefined", reactions |-> <<>>]

\* #createPromise / pys_promise body: a fresh pending promise and its resolve.
createPromise == [state |-> "pending", reactions |-> <<>>]

\* faulty variant: the slot is given a fresh promise on every reference
EnsurePromise_fresh(p) == createPromise
\* "if (typeof slot === 'undefined') slot = createPromise()"
EnsurePromise(p) == IF p.state = "undefined" THEN createPromise ELSE p

\* faulty variant: resolve() fires the reactions and keeps them, like an event emitter
PromiseResolve_refire(p) == p
\* promise.resolve(): pending -> fulfilled, reactions handed to the queue;
\* on a fulfilled promise it does nothing.
PromiseResolve(p) ==
    IF p.state = "pending" THEN [p EXCEPT !.state = "fulfilled", !.reactions = <<>>]
    ELSE p

\* faulty variant: reactions are scheduled newest first
Woken_lifo(p) ==
    IF p.state = "pending"
    THEN [k \in 1..Len(p.reactions) |-> p.reactions[Len(p.reactions) + 1 - k]]
    ELSE <<>>
\* the reactions promise.resolve() schedules, in registration order; none when
\* the promise is already fulfilled
Woken(p) == IF p.state = "pending" THEN p.reactions ELSE <<>>

\* `await p` inside #wait / wait / pys_wait by task id: a pending promise
\* records the reaction, a fulfilled one schedules the continuation at once
AwaitReg(p, id) == IF p.state = "pending" THEN [p EXCEPT !.reactions = Append(@, id)] ELSE p
AwaitJobs(p, id) == IF p.state = "pending" THEN <<>> ELSE <<[t |-> id, k |-> "wait"]>>

\* the microtasks that resume the #wait / wait / pys_wait frames of tasks ts
WaitJobs(ts) == [k \in 1..Len(ts) |-> [t |-> ts[k], k |-> "wait"]]

InSeq(x, s) == \E k \in 1..Len(s) : s[k] = x

\* ------------------------------------------------------------ store entries
\* A #states / __pysStates slot: def = typeof slot !== "undefined"; a slot
\* that add_state wrote is the object { getter, setter }.
NoState == [def |-> FALSE, getter |-> Undefined, setter |-> Undefined]
StateEntry(stateObject, stateSetterObject) ==
    [def |-> TRUE, getter |-> stateObject, setter |-> stateSetterObject]

\* History kept beside the stores: the names add_state was called with so
\* far, and per name the value passed to the latest add_ref (<<>> = add_ref
\* was never called with that name, <<v>> = it was, last with v).
NoneAdded == [states |-> {}, refs |-> [n \in Names |-> <<>>]]
NoteState(added, name) == [added EXCEPT !.states = @ \cup {name}]
NoteRef(added, name, value) == [added EXCEPT !.refs[name] = <<value>>]

\* `throw new Error(...)` of a lookup that found nothing
NotFound(kind, name) == kind \o " " \o name \o " not found."
\* calling a stored setter that is not a function
NotCallable == "TypeError: setter is not a function"

\* ------------------------------------------------------------ return paths
Throw(op, e) == last' = [op |-> op, err |-> e, ret |-> RetUndef]
Return(op, r) == last' = [op |-> op, err |-> NoErr, ret |-> r]

\* ------------------------------------------------- part_000: instance manager
get_uuid_ref(pysid) ==
    IF pysid.type # "string" THEN [err |-> "UUID must be a string.", v |-> ""]
    ELSE [err |-> NoErr, v |-> IF pysid.v = "" THEN pysBridgeGlobalName ELSE pysid.v]

\* History kept beside a function store: per name, the procedure passed to
\* the latest successful add_func and the different one passed before it.
NoHist == [prev |-> Undefined, cur |-> Undefined]
Registered(h, funcObject) ==
    IF funcObject = h.cur THEN h ELSE [prev |-> h.cur, cur |-> funcObject]

\* the object the part_000 constructor builds (lines 46-48, field #promise = {})
NewInstance ==
    [states  |-> [n \in Names |-> NoState],
     refs    |-> [n \in Names |-> Undefined],
     funcs   |-> [n \in Names |-> Undefined],
     promise |-> [n \in Names |-> NoPromise],
     hist    |-> [n \in Names |-> NoHist],
     added   |-> NoneAdded]

constructor(op, pysid, privateConstructorKey) ==
    IF privateConstructorKey # PRIVATE_CONSTRUCTOR_KEY
    THEN /\ Throw(op, "Cannot instantiate PysBridge directly.")
         /\ UNCHANGED <<pysBridge, insts>>
    ELSE LET r == get_uuid_ref(pysid) IN
         IF r.err # NoErr
         THEN Throw(op, r.err) /\ UNCHANGED <<pysBridge, insts>>
         ELSE /\ Len(insts) < MaxInsts
              /\ insts' = Append(insts, NewInstance)
              /\ pysBridge' = [pysBridge EXCEPT ![r.v] = Len(insts) + 1]
              /\ Return(op, RetInst(Len(insts) + 1))

\* `new PysBridge(pysid)` from outside the module: the key is not reachable
new_PysBridge(pysid) ==
    /\ api = "named"
    /\ constructor("new PysBridge", pysid, Undefined)
    /\ UNCHANGED <<api, inputs, pysStates, pysRefs, pysAdded, setterCalls, pysPromises, pysFunctions, tasks, mq>>

create_pys_bridge(pysid) ==
    /\ api = "named"
    /\ LET r == get_uuid_ref(pysid) IN
       IF r.err # NoErr
       THEN Throw("create_pys_bridge", r.err) /\ UNCHANGED <<pysBridge, insts>>
       ELSE IF pysBridge[r.v] = NoInst
            THEN constructor("create_pys_bridge", Str(r.v), PRIVATE_CONSTRUCTOR_KEY)
            ELSE Return("create_pys_bridge", RetInst(pysBridge[r.v])) /\ UNCHANGED <<pysBridge, insts>>
    /\ UNCHANGED <<api, inputs, pysStates, pysRefs, pysAdded, setterCalls, pysPromises, pysFunctions, tasks, mq>>

get_pys_bridge(pysid) ==
    /\ api = "named"
    /\ LET r == get_uuid_ref(pysid) IN
       IF r.err # NoErr THEN Throw("get_pys_bridge", r.err)
       ELSE IF pysBridge[r.v] # NoInst THEN Return("get_pys_bridge", RetInst(pysBridge[r.v]))
            ELSE Throw("get_pys_bridge", "Bridge id " \o r.v \o " not found.")
    /\ UNCHANGED <<api, inputs, pysStates, pysRefs, pysAdded, setterCalls, pysBridge, insts, pysPromises, pysFunctions, tasks, mq>>

\* faulty variant: the test is inverted
HasEntry_inverted(key) == pysBridge[key] = NoInst
\* typeof PysBridge.#pysBridge[pysid] !== "undefined"
HasEntry(key) == pysBridge[key] # NoInst

has_pys_bridge(pysid) ==
    /\ api = "named"
    /\ LET r == get_uuid_ref(pysid) IN
       IF r.err # NoErr THEN Throw("has_pys_bridge", r.err)
       ELSE Return("has_pys_bridge", RetBool(HasEntry(r.v)))
    /\ UNCHANGED <<api, inputs, pysStates, pysRefs, pysAdded, setterCalls, pysBridge, insts, pysPromises, pysFunctions, tasks, mq>>

\* ------------------------------------------- part_000: state and ref stores
\* faulty variant: #states is one object shared by every instance
StoreState_shared(ins, i, name, entry) ==
    [j \in 1..Len(ins) |-> [ins[j] EXCEPT !.states[name] = entry]]
\* this.#states[name] = { getter: stateObject, setter: stateSetterObject }
StoreState(ins, i, name, entry) == [ins EXCEPT ![i].states[name] = entry]

add_state(i, name, stateObject, stateSetterObject) ==
    /\ api = "named"
    /\ i \in 1..Len(insts)
    /\ insts' = [StoreState(insts, i, name, StateEntry(stateObject, stateSetterObject))
                    EXCEPT ![i].added = NoteState(@, name)]
    /\ Return("add_state", RetUndef)
    /\ UNCHANGED <<api, inputs, pysStates, pysRefs, pysAdded, setterCalls,
                   pysBridge, pysPromises, pysFunctions, tasks, mq>>

\* faulty variant: a lookup of an absent state hands back undefined
StateLookup_lenient(entry, op, name) == Return(op, RetVal(entry.getter))
\* state / pys_get body: the stored getter value, or the not-found error
StateLookup(entry, op, name) ==
    IF entry.def THEN Return(op, RetVal(entry.getter))
    ELSE Throw(op, NotFound("State", name))

state(i, name) ==
    /\ api = "named"
    /\ i \in 1..Len(insts)
    /\ StateLookup(insts[i].states[name], "state", name)
    /\ UNCHANGED <<api, inputs, pysStates, pysRefs, pysAdded, setterCalls,
                   pysBridge, insts, pysPromises, pysFunctions, tasks, mq>>

\* faulty variant: the setter runs and the value is also written to the getter
AfterSet_writes(entry, value) == [entry EXCEPT !.getter = value]
\* the stored entry after set_state(name, value): set_state assigns nothing
AfterSet(entry, value) == entry

\* set_state / pys_set body: call the stored setter with value; a setter that
\* is not a function makes the call throw a TypeError
SetterCall(entry, op, name, value) ==
    IF ~entry.def
    THEN Throw(op, NotFound("State", name)) /\ UNCHANGED setterCalls
    ELSE IF ~IsFunction(entry.setter)
    THEN Throw(op, NotCallable) /\ UNCHANGED setterCalls
    ELSE /\ Len(setterCalls) < MaxSets
         /\ setterCalls' = Append(setterCalls, [by |-> entry.setter, v |-> value])
         /\ Return(op, RetUndef)

set_state(i, name, value) ==
    /\ api = "named"
    /\ i \in 1..Len(insts)
    /\ SetterCall(insts[i].states[name], "set_state", name, value)
    /\ insts' = [insts EXCEPT ![i].states[name] = AfterSet(@, value)]
    /\ UNCHANGED <<api, inputs, pysStates, pysRefs, pysAdded,
                   pysBridge, pysPromises, pysFunctions, tasks, mq>>

has_state(i, name) == insts[i].states[name].def

add_ref(i, name, value) ==
    /\ api = "named"
    /\ i \in 1..Len(insts)
    /\ insts' = [insts EXCEPT ![i].refs[name] = value,
                              ![i].added = NoteRef(@, name, value)]
    /\ Return("add_ref", RetUndef)
    /\ UNCHANGED <<api, inputs, pysStates, pysRefs, pysAdded, setterCalls,
                   pysBridge, pysPromises, pysFunctions, tasks, mq>>

\* typeof slot !== "undefined": a slot that holds the undefined value reads
\* like a slot that was never written
IsDefined(value) == value # Undefined

\* ref / pys_ref body: the stored value, or the not-found error
RefLookup(value, op, kind, name) ==
    IF IsDefined(value) THEN Return(op, RetVal(value))
    ELSE Throw(op, NotFound(kind, name))

ref(i, name) ==
    /\ api = "named"
    /\ i \in 1..Len(insts)
    /\ RefLookup(insts[i].refs[name], "ref", "Var", name)
    /\ UNCHANGED <<api, inputs, pysStates, pysRefs, pysAdded, setterCalls,
                   pysBridge, insts, pysPromises, pysFunctions, tasks, mq>>

has_ref(i, name) == IsDefined(insts[i].refs[name])

\* ------------------------------------------------------------------ tasks
\* One async invocation.  pc: "suspended" (a reaction of a pending promise),
\* "wait_queued" (the wait frame's continuation is in mq), "call_queued" (the
\* call_func continuation is in mq), "invoked" (the procedure was called and
\* its result is awaited), "done" (the returned promise fulfilled),
\* "rejected" (the returned promise rejected).  fn/got/n record the procedure
\* invoked, the arguments it received and how often.  The remaining fields
\* are history: relFn = what released the task from its suspension (the
\* procedure passed to the releasing add_func, or ByResolve), later = its
\* signal was resolved again after the task was released (or issued, if it
\* never suspended), issCur/issPrev = the procedure registered under its name
\* when it was issued and the different one registered before that.
ByResolve == "resolve()"
NewTask(kind, i, name, sig, args, pc, cur, prv) ==
    [kind |-> kind, inst |-> i, name |-> name, sig |-> sig, args |-> args,
     pc |-> pc, fn |-> Undefined, got |-> NoArgs, n |-> 0,
     relFn |-> Undefined, later |-> FALSE, issCur |-> cur, issPrev |-> prv]

\* history bookkeeping of a resolve of signal (i, sig) that wakes tasks ws
NoteResolve(tk, id, i, sig, fn, ws) ==
    IF tk.inst # i \/ tk.sig # sig THEN tk
    ELSE IF InSeq(id, ws) THEN [tk EXCEPT !.pc = "wait_queued", !.relFn = fn]
    ELSE IF tk.pc \in {"wait_queued", "call_queued"} THEN [tk EXCEPT !.later = TRUE]
    ELSE tk

\* ------------------------------------------------ part_000: function store
\* faulty variant: a name that already holds a procedure keeps it
StoreFunc_keep(old, funcObject) == IF old = Undefined THEN funcObject ELSE old
\* this.#funcs[name] = funcObject
StoreFunc(old, funcObject) == funcObject

\* faulty variant: the type check is missing
AddFuncRejects_never(funcObject) == FALSE
\* typeof funcObject !== "function"
AddFuncRejects(funcObject) == ~IsFunction(funcObject)

add_func(i, name, funcObject) ==
    /\ api = "named"
    /\ i \in 1..Len(insts)
    /\ IF AddFuncRejects(funcObject)
       THEN Throw("add_func", "Function must be a function.") /\ UNCHANGED <<insts, tasks, mq>>
       ELSE LET p == EnsurePromise(insts[i].promise[name])
                ws == Woken(p)
            IN /\ insts' = [insts EXCEPT ![i].funcs[name] = StoreFunc(@, funcObject),
                                         ![i].promise[name] = PromiseResolve(p),
                                         ![i].hist[name] = Registered(@, funcObject)]
               /\ mq' = mq \o WaitJobs(ws)
               /\ tasks' = [t \in 1..Len(tasks) |->
                              NoteResolve(tasks[t], t, i, name, funcObject, ws)]
               /\ Return("add_func", RetUndef)
    /\ UNCHANGED <<api, inputs, pysStates, pysRefs, pysAdded, setterCalls, pysBridge, pysPromises, pysFunctions>>

call_func(i, name, args) ==
    /\ api = "named"
    /\ i \in 1..Len(insts)
    /\ Len(tasks) < MaxTasks
    /\ LET id == Len(tasks) + 1
           p == EnsurePromise(insts[i].promise[name])
       IN /\ insts' = [insts EXCEPT ![i].promise[name] = AwaitReg(p, id)]
          /\ mq' = mq \o AwaitJobs(p, id)
          /\ tasks' = Append(tasks,
                  NewTask("call", i, name, name, args,
                          IF p.state = "pending" THEN "suspended" ELSE "wait_queued",
                          insts[i].hist[name].cur, insts[i].hist[name].prev))
    /\ Return("call_func", RetPromise)
    /\ UNCHANGED <<api, inputs, pysStates, pysRefs, pysAdded, setterCalls, pysBridge, pysPromises, pysFunctions>>

has_func(i, name) == IsFunction(insts[i].funcs[name])

\* faulty variant: the procedure is called without the caller's arguments
PassedArgs_none(tk) == <<>>
\* ...args of this.#funcs[name](...args)
PassedArgs(tk) == tk.args

\* faulty variant: the procedure is the one whose registration released the
\* call, captured when the call was released
call_func_resume_early(tk) ==
    LET f == IF IsFunction(tk.relFn) THEN tk.relFn ELSE insts[tk.inst].funcs[tk.name] IN
    IF IsFunction(f)
    THEN [tk EXCEPT !.pc = "invoked", !.fn = f, !.got = PassedArgs(tk), !.n = @ + 1]
    ELSE [tk EXCEPT !.pc = "done"]
\* the call_func continuation after `await this.#wait(name)` (lines 122-124):
\* invoke the stored procedure, or fall through when none is stored
call_func_resume(tk) ==
    LET f == insts[tk.inst].funcs[tk.name] IN
    IF IsFunction(f)
    THEN [tk EXCEPT !.pc = "invoked", !.fn = f, !.got = PassedArgs(tk), !.n = @ + 1]
    ELSE [tk EXCEPT !.pc = "done"]

\* ---------------------------------------- pysbridge.js: the PysBridge class
\* the object the pysbridge.js constructor builds (lines 13-16): one promise
Asset_NewInstance ==
    [states  |-> [n \in Names |-> NoState],
     refs    |-> [n \in Names |-> Undefined],
     funcs   |-> [n \in Names |-> Undefined],
     promise |-> createPromise,
     hist    |-> [n \in Names |-> NoHist],
     added   |-> NoneAdded]

\* the constructor is public: `new PysBridge(pysid)` stores the new object
Asset_constructor(op, pysid) ==
    LET r == get_uuid_ref(pysid) IN
    IF r.err # NoErr
    THEN Throw(op, r.err) /\ UNCHANGED <<pysBridge, insts>>
    ELSE /\ Len(insts) < MaxInsts
         /\ insts' = Append(insts, Asset_NewInstance)
         /\ pysBridge' = [pysBridge EXCEPT ![r.v] = Len(insts) + 1]
         /\ Return(op, RetInst(Len(insts) + 1))

Asset_new_PysBridge(pysid) ==
    /\ api = "asset"
    /\ Asset_constructor("new PysBridge", pysid)
    /\ UNCHANGED <<api, inputs, pysStates, pysRefs, pysAdded, setterCalls, pysPromises, pysFunctions, tasks, mq>>

\* no else branch: an existing id falls off the end and returns undefined
Asset_create_pys_bridge(pysid) ==
    /\ api = "asset"
    /\ LET r == get_uuid_ref(pysid) IN
       IF r.err # NoErr
       THEN Throw("create_pys_bridge", r.err) /\ UNCHANGED <<pysBridge, insts>>
       ELSE IF pysBridge[r.v] = NoInst
            THEN Asset_constructor("create_pys_bridge", Str(r.v))
            ELSE Return("create_pys_bridge", RetUndef) /\ UNCHANGED <<pysBridge, insts>>
    /\ UNCHANGED <<api, inputs, pysStates, pysRefs, pysAdded, setterCalls, pysPromises, pysFunctions, tasks, mq>>

Asset_get_pys_bridge(pysid) ==
    /\ api = "asset"
    /\ LET r == get_uuid_ref(pysid) IN
       IF r.err # NoErr THEN Throw("get_pys_bridge", r.err)
       ELSE IF pysBridge[r.v] # NoInst THEN Return("get_pys_bridge", RetInst(pysBridge[r.v]))
            ELSE Throw("get_pys_bridge", "Bridge id " \o r.v \o " not found.")
    /\ UNCHANGED <<api, inputs, pysStates, pysRefs, pysAdded, setterCalls, pysBridge, insts, pysPromises, pysFunctions, tasks, mq>>

Asset_resolve(i) ==
    /\ api = "asset"
    /\ i \in 1..Len(insts)
    /\ LET p == insts[i].promise
           ws == Woken(p)
       IN /\ insts' = [insts EXCEPT ![i].promise = PromiseResolve(p)]
          /\ mq' = mq \o WaitJobs(ws)
          /\ tasks' = [t \in 1..Len(tasks) |->
                         NoteResolve(tasks[t], t, i, "", ByResolve, ws)]
    /\ Return("resolve", RetUndef)
    /\ UNCHANGED <<api, inputs, pysStates, pysRefs, pysAdded, setterCalls, pysBridge, pysPromises, pysFunctions>>

\* faulty variant: add_func also resolves the instance's promise
Asset_add_func_resolving(i, name, funcObject) ==
    /\ api = "asset"
    /\ i \in 1..Len(insts)
    /\ LET p == insts[i].promise
           ws == Woken(p)
       IN /\ insts' = [insts EXCEPT ![i].funcs[name] = funcObject,
                                    ![i].promise = PromiseResolve(p)]
          /\ mq' = mq \o WaitJobs(ws)
          /\ tasks' = [t \in 1..Len(tasks) |->
                         NoteResolve(tasks[t], t, i, "", funcObject, ws)]
    /\ Return("add_func", RetUndef)
    /\ UNCHANGED <<api, inputs, pysStates, pysRefs, pysAdded, setterCalls,
                   pysBridge, pysPromises, pysFunctions>>
\* stores whatever it is given and resolves nothing
Asset_add_func(i, name, funcObject) ==
    /\ api = "asset"
    /\ i \in 1..Len(insts)
    /\ insts' = [insts EXCEPT ![i].funcs[name] = funcObject]
    /\ Return("add_func", RetUndef)
    /\ UNCHANGED <<api, inputs, pysStates, pysRefs, pysAdded, setterCalls, pysBridge, pysPromises, pysFunctions, tasks, mq>>

Asset_call_func(i, name, args) ==
    /\ api = "asset"
    /\ i \in 1..Len(insts)
    /\ Len(tasks) < MaxTasks
    /\ LET id == Len(tasks) + 1
           p == insts[i].promise
       IN /\ insts' = [insts EXCEPT ![i].promise = AwaitReg(p, id)]
          /\ mq' = mq \o AwaitJobs(p, id)
          /\ tasks' = Append(tasks,
                  NewTask("call", i, name, "", args,
                          IF p.state = "pending" THEN "suspended" ELSE "wait_queued",
                          Undefined, Undefined))
    /\ Return("call_func", RetPromise)
    /\ UNCHANGED <<api, inputs, pysStates, pysRefs, pysAdded, setterCalls, pysBridge, pysPromises, pysFunctions>>

\* the call_func continuation after `await this.wait()` (lines 72-76)
Asset_call_func_resume(tk) ==
    LET f == insts[tk.inst].funcs[tk.name] IN
    IF IsFunction(f)
    THEN [tk EXCEPT !.pc = "invoked", !.fn = f, !.got = PassedArgs(tk), !.n = @ + 1]
    ELSE [tk EXCEPT !.pc = "rejected"]

\* the state and ref stores of the pysbridge.js class (no has_* predicates)
Asset_add_state(i, name, stateObject, stateSetterObject) ==
    /\ api = "asset"
    /\ i \in 1..Len(insts)
    /\ insts' = [insts EXCEPT ![i].states[name] = StateEntry(stateObject, stateSetterObject),
                              ![i].added = NoteState(@, name)]
    /\ Return("add_state", RetUndef)
    /\ UNCHANGED <<api, inputs, pysStates, pysRefs, pysAdded, setterCalls,
                   pysBridge, pysPromises, pysFunctions, tasks, mq>>

Asset_state(i, name) ==
    /\ api = "asset"
    /\ i \in 1..Len(insts)
    /\ StateLookup(insts[i].states[name], "state", name)
    /\ UNCHANGED <<api, inputs, pysStates, pysRefs, pysAdded, setterCalls,
                   pysBridge, insts, pysPromises, pysFunctions, tasks, mq>>

Asset_set_state(i, name, value) ==
    /\ api = "asset"
    /\ i \in 1..Len(insts)
    /\ SetterCall(insts[i].states[name], "set_state", name, value)
    /\ UNCHANGED <<api, inputs, pysStates, pysRefs, pysAdded,
                   pysBridge, insts, pysPromises, pysFunctions, tasks, mq>>

Asset_add_ref(i, name, value) ==
    /\ api = "asset"
    /\ i \in 1..Len(insts)
    /\ insts' = [insts EXCEPT ![i].refs[name] = value,
                              ![i].added = NoteRef(@, name, value)]
    /\ Return("add_ref", RetUndef)
    /\ UNCHANGED <<api, inputs, pysStates, pysRefs, pysAdded, setterCalls,
                   pysBridge, pysPromises, pysFunctions, tasks, mq>>

Asset_ref(i, name) ==
    /\ api = "asset"
    /\ i \in 1..Len(insts)
    /\ RefLookup(insts[i].refs[name], "ref", "Var", name)
    /\ UNCHANGED <<api, inputs, pysStates, pysRefs, pysAdded, setterCalls,
                   pysBridge, insts, pysPromises, pysFunctions, tasks, mq>>

\* ------------------------------------------- pysbridge.js: the flat pys_* API
pys_register_state(stateName, stateObject, stateSetterObject) ==
    /\ api = "flat"
    /\ pysStates' = [pysStates EXCEPT ![stateName] = StateEntry(stateObject, stateSetterObject)]
    /\ pysAdded' = NoteState(pysAdded, stateName)
    /\ Return("pys_register_state", RetUndef)
    /\ UNCHANGED <<api, inputs, pysRefs, setterCalls,
                   pysBridge, insts, pysPromises, pysFunctions, tasks, mq>>

pys_register_ref(refName, refObject) ==
    /\ api = "flat"
    /\ pysRefs' = [pysRefs EXCEPT ![refName] = refObject]
    /\ pysAdded' = NoteRef(pysAdded, refName, refObject)
    /\ Return("pys_register_ref", RetUndef)
    /\ UNCHANGED <<api, inputs, pysStates, setterCalls,
                   pysBridge, insts, pysPromises, pysFunctions, tasks, mq>>

pys_get(stateName) ==
    /\ api = "flat"
    /\ StateLookup(pysStates[stateName], "pys_get", stateName)
    /\ UNCHANGED <<api, inputs, pysStates, pysRefs, pysAdded, setterCalls,
                   pysBridge, insts, pysPromises, pysFunctions, tasks, mq>>

pys_set(stateName, value) ==
    /\ api = "flat"
    /\ SetterCall(pysStates[stateName], "pys_set", stateName, value)
    /\ UNCHANGED <<api, inputs, pysStates, pysRefs, pysAdded,
                   pysBridge, insts, pysPromises, pysFunctions, tasks, mq>>

pys_ref(refName) ==
    /\ api = "flat"
    /\ RefLookup(pysRefs[refName], "pys_ref", "Ref", refName)
    /\ UNCHANGED <<api, inputs, pysStates, pysRefs, pysAdded, setterCalls,
                   pysBridge, insts, pysPromises, pysFunctions, tasks, mq>>
\* faulty variant: an existing promise is replaced by a fresh pending one
pys_promise_slot_fresh(p) == createPromise
\* the slot after pys_promise(promiseName): created only when undefined
pys_promise_slot(p) == IF p.state = "undefined" THEN createPromise ELSE p

\* "if (typeof __pysPromises[promiseName] === 'undefined') pys_promise(promiseName)"
pys_ensure(p) == IF p.state = "undefined" THEN pys_promise_slot(p) ELSE p

pys_promise(promiseName) ==
    /\ api = "flat"
    /\ pysPromises' = [pysPromises EXCEPT ![promiseName] = pys_promise_slot(@)]
    /\ Return("pys_promise", RetUndef)
    /\ UNCHANGED <<api, inputs, pysStates, pysRefs, pysAdded, setterCalls, pysBridge, insts, pysFunctions, tasks, mq>>

pys_wait(promiseName) ==
    /\ api = "flat"
    /\ Len(tasks) < MaxTasks
    /\ LET id == Len(tasks) + 1
           p == pys_ensure(pysPromises[promiseName])
       IN /\ pysPromises' = [pysPromises EXCEPT ![promiseName] = AwaitReg(p, id)]
          /\ mq' = mq \o AwaitJobs(p, id)
          /\ tasks' = Append(tasks,
                  NewTask("wait", 0, Undefined, promiseName, NoArgs,
                          IF p.state = "pending" THEN "suspended" ELSE "wait_queued",
                          Undefined, Undefined))
    /\ Return("pys_wait", RetPromise)
    /\ UNCHANGED <<api, inputs, pysStates, pysRefs, pysAdded, setterCalls, pysBridge, insts, pysFunctions>>

pys_resolve(promiseName) ==
    /\ api = "flat"
    /\ LET p == pys_ensure(pysPromises[promiseName])
           ws == Woken(p)
       IN /\ pysPromises' = [pysPromises EXCEPT ![promiseName] = PromiseResolve(p)]
          /\ mq' = mq \o WaitJobs(ws)
          /\ tasks' = [t \in 1..Len(tasks) |->
                         NoteResolve(tasks[t], t, 0, promiseName, ByResolve, ws)]
    /\ Return("pys_resolve", RetUndef)
    /\ UNCHANGED <<api, inputs, pysStates, pysRefs, pysAdded, setterCalls, pysBridge, insts, pysFunctions>>

pys_func(functionName, functionObject) ==
    /\ api = "flat"
    /\ pysFunctions' = [pysFunctions EXCEPT ![functionName] = functionObject]
    /\ Return("pys_func", RetUndef)
    /\ UNCHANGED <<api, inputs, pysStates, pysRefs, pysAdded, setterCalls, pysBridge, insts, pysPromises, tasks, mq>>

\* the rest of pys_call_func after the optional wait (lines 235-239)
pys_call_func_resume(tk) ==
    LET f == pysFunctions[tk.name] IN
    IF IsFunction(f)
    THEN [tk EXCEPT !.pc = "invoked", !.fn = f, !.got = PassedArgs(tk), !.n = @ + 1]
    ELSE [tk EXCEPT !.pc = "rejected"]

\* faulty variant: the wait is skipped whatever promiseName is
Waits_never(promiseName) == FALSE
\* typeof promiseName === "string" && promiseName !== ""
Waits(promiseName) == promiseName.type = "string" /\ promiseName.v # ""

pys_call_func(functionName, promiseName, args) ==
    /\ api = "flat"
    /\ Len(tasks) < MaxTasks
    /\ LET id == Len(tasks) + 1 IN
       IF Waits(promiseName)
       THEN LET p == pys_ensure(pysPromises[promiseName.v]) IN
            /\ pysPromises' = [pysPromises EXCEPT ![promiseName.v] = AwaitReg(p, id)]
            /\ mq' = mq \o AwaitJobs(p, id)
            /\ tasks' = Append(tasks,
                    NewTask("call", 0, functionName, promiseName.v, args,
                            IF p.state = "pending" THEN "suspended" ELSE "wait_queued",
                            Undefined, Undefined))
       ELSE LET tk == pys_call_func_resume(
                        NewTask("call", 0, functionName, "", args, "call_queued",
                                Undefined, Undefined))
            IN /\ tasks' = Append(tasks, tk)
               /\ mq' = mq \o (IF tk.pc = "invoked" THEN <<[t |-> id, k |-> "ret"]>> ELSE <<>>)
               /\ UNCHANGED pysPromises
    /\ Return("pys_call_func", RetPromise)
    /\ UNCHANGED <<api, inputs, pysStates, pysRefs, pysAdded, setterCalls, pysBridge, insts, pysFunctions>>

\* the promiseName arguments of this run
SigInputs == inputs.gates

\* ----------------------------------------------------------- microtasks
\* the task after the microtask of kind k ran
AfterJob(tk, k) ==
    IF k = "wait" THEN [tk EXCEPT !.pc = IF tk.kind = "wait" THEN "done" ELSE "call_queued"]
    ELSE IF k = "ret" THEN [tk EXCEPT !.pc = "done"]
    ELSE IF api = "named" THEN call_func_resume(tk)
    ELSE IF api = "asset" THEN Asset_call_func_resume(tk)
    ELSE pys_call_func_resume(tk)

\* the microtask a continuation leaves behind: the wait frame's promise
\* fulfils and schedules its caller; an invoked procedure's result is awaited
FollowUp(id, k, tk1) ==
    IF k = "wait" /\ tk1.pc = "call_queued" THEN <<[t |-> id, k |-> "call"]>>
    ELSE IF k = "call" /\ tk1.pc = "invoked" THEN <<[t |-> id, k |-> "ret"]>>
    ELSE <<>>

RunMicrotask ==
    /\ mq # <<>>
    /\ LET e == Head(mq)
           tk1 == AfterJob(tasks[e.t], e.k)
       IN /\ tasks' = [tasks EXCEPT ![e.t] = tk1]
          /\ mq' = Tail(mq) \o FollowUp(e.t, e.k, tk1)
    /\ UNCHANGED <<api, inputs, pysStates, pysRefs, pysAdded, setterCalls, pysBridge, insts, pysPromises, pysFunctions, last>>

\* ------------------------------------------------------------ specification
Init ==
    /\ \E w \in Worlds : api = w[1] /\ inputs = w[2]
    /\ pysBridge = [k \in IdKeys |-> NoInst]
    /\ insts = <<>>
    /\ pysPromises = [n \in Names |-> NoPromise]
    /\ pysFunctions = [n \in Names |-> Undefined]
    /\ pysStates = [n \in Names |-> NoState]
    /\ pysRefs = [n \in Names |-> Undefined]
    /\ pysAdded = NoneAdded
    /\ setterCalls = <<>>
    /\ tasks = <<>>
    /\ mq = <<>>
    /\ last = [op |-> "none", err |-> NoErr, ret |-> RetUndef]

Next ==
    \/ \E pysid \in inputs.ids : create_pys_bridge(pysid)
    \/ \E pysid \in inputs.lookups : get_pys_bridge(pysid)
    \/ \E pysid \in inputs.lookups : has_pys_bridge(pysid)
    \/ \E pysid \in inputs.newids : new_PysBridge(pysid)
    \/ \E i \in 1..Len(insts), n \in inputs.names, f \in inputs.procs : add_func(i, n, f)
    \/ \E i \in 1..Len(insts), n \in inputs.names, a \in inputs.args : call_func(i, n, a)
    \/ \E i \in 1..Len(insts), n \in inputs.names, g \in inputs.vals, f \in inputs.setters :
          add_state(i, n, g, f)
    \/ \E i \in 1..Len(insts), n \in inputs.names : inputs.vals # {} /\ state(i, n)
    \/ \E i \in 1..Len(insts), n \in inputs.names, v \in inputs.vals : set_state(i, n, v)
    \/ \E i \in 1..Len(insts), n \in inputs.names, v \in inputs.vals : add_ref(i, n, v)
    \/ \E i \in 1..Len(insts), n \in inputs.names : inputs.vals # {} /\ ref(i, n)
    \/ \E pysid \in inputs.ids : Asset_create_pys_bridge(pysid)
    \/ \E pysid \in inputs.lookups : Asset_get_pys_bridge(pysid)
    \/ \E pysid \in inputs.newids : Asset_new_PysBridge(pysid)
    \/ \E i \in 1..Len(insts) : Asset_resolve(i)
    \/ \E i \in 1..Len(insts), n \in inputs.names, f \in inputs.procs : Asset_add_func(i, n, f)
    \/ \E i \in 1..Len(insts), n \in inputs.names, a \in inputs.args : Asset_call_func(i, n, a)
    \/ \E i \in 1..Len(insts), n \in inputs.names, g \in inputs.vals, f \in inputs.setters :
          Asset_add_state(i, n, g, f)
    \/ \E i \in 1..Len(insts), n \in inputs.names : inputs.vals # {} /\ Asset_state(i, n)
    \/ \E i \in 1..Len(insts), n \in inputs.names, v \in inputs.vals : Asset_set_state(i, n, v)
    \/ \E i \in 1..Len(insts), n \in inputs.names, v \in inputs.vals : Asset_add_ref(i, n, v)
    \/ \E i \in 1..Len(insts), n \in inputs.names : inputs.vals # {} /\ Asset_ref(i, n)
    \/ \E s \in inputs.sigs : pys_promise(s)
    \/ \E s \in inputs.sigs : pys_wait(s)
    \/ \E s \in inputs.sigs : pys_resolve(s)
    \/ \E n \in inputs.names, f \in inputs.procs : pys_func(n, f)
    \/ \E n \in inputs.names, s \in SigInputs, a \in inputs.args : pys_call_func(n, s, a)
    \/ \E n \in inputs.names, g \in inputs.vals, f \in inputs.setters : pys_register_state(n, g, f)
    \/ \E n \in inputs.names : inputs.vals # {} /\ pys_get(n)
    \/ \E n \in inputs.names, v \in inputs.vals : pys_set(n, v)
    \/ \E n \in inputs.names, v \in inputs.vals : pys_register_ref(n, v)
    \/ \E n \in inputs.names : inputs.vals # {} /\ pys_ref(n)
    \/ RunMicrotask

Spec == Init /\ [][Next]_vars

\* The event loop runs a queued microtask before it goes idle.
FairSpec == Spec /\ WF_vars(RunMicrotask)

\* ------------------------------------------------------------------ claims
TaskIds == 1..Len(tasks)
\* the call_func invocations on a PysBridge of part_000
NamedCalls == {t \in TaskIds : api = "named" /\ tasks[t].kind = "call"}
\* the call_func invocations on a PysBridge of either class
ClassCalls == {t \in TaskIds : api \in {"named", "asset"} /\ tasks[t].kind = "call"}
Invoked(t) == tasks[t].n > 0
\* the task suspended on its signal and an add_func / resolve released it
WasReleased(t) == tasks[t].relFn # Undefined

\* no successful add_func(name, ...) has executed on the task's instance yet
NeverRegistered(t) == insts[tasks[t].inst].hist[tasks[t].name].cur = Undefined

\* C1 (safety half): in part_000 a call_func(n, args) stays suspended, and
\* invokes nothing, as long as no add_func(n, fn) has executed; once the call
\* has invoked, having been released by add_func(n, fn) with no further
\* add_func(n, ...) before it resumed, it invoked fn, once, with exactly args.
C1_Safe ==
    \A t \in NamedCalls :
        /\ NeverRegistered(t) => tasks[t].pc = "suspended" /\ ~Invoked(t)
        /\ (Invoked(t) /\ WasReleased(t) /\ ~tasks[t].later) =>
               /\ tasks[t].fn = tasks[t].relFn
               /\ tasks[t].got = tasks[t].args
               /\ tasks[t].n = 1

\* C1: C1_Safe always holds, and every call_func that add_func(n, fn) released
\* from its suspension eventually resumes and invokes a procedure with the
\* arguments it was called with.
C1_SuspendedCallResumes ==
    /\ []C1_Safe
    /\ \A t \in 1..MaxTasks :
          (t \in NamedCalls /\ WasReleased(t))
             ~> (t \in NamedCalls /\ Invoked(t) /\ tasks[t].got = tasks[t].args)

\* C1 witness: a call suspended before add_func, released by add_func(n, fn1)
\* alone, has invoked fn1 with its arguments (1, 2) and completed
C1_Witness ==
    \E t \in NamedCalls :
        /\ tasks[t].relFn = "fn1" /\ ~tasks[t].later
        /\ tasks[t].args = <<1, 2>> /\ tasks[t].got = <<1, 2>>
        /\ tasks[t].fn = "fn1" /\ tasks[t].pc = "done"

\* C2: in both PysBridge classes, a call_func(n, ...) made while no function
\* is registered under n neither fails nor invokes nor completes as long as no
\* add_func(n, ...) has occurred.
C2_WaitsForRegistration ==
    \A t \in ClassCalls :
        insts[tasks[t].inst].funcs[tasks[t].name] = Undefined =>
            /\ tasks[t].pc \notin {"invoked", "done", "rejected"}
            /\ ~Invoked(t)

\* the id a string argument is normalized to
Normalized(pysid) == IF pysid.v = "" THEN pysBridgeGlobalName ELSE pysid.v
StringIds == {pysid \in IdInputs : pysid.type = "string"}

\* C3: in both PysBridge classes, create_pys_bridge(id) on an id that already
\* has an instance returns that same instance.
C3_CreateIsIdempotent ==
    [][\A pysid \in StringIds :
          ((create_pys_bridge(pysid) \/ Asset_create_pys_bridge(pysid))
             /\ pysBridge[Normalized(pysid)] # NoInst)
          => last'.ret = RetInst(pysBridge[Normalized(pysid)])]_vars

\* C4: in both PysBridge classes, an id that is mapped to an instance stays
\* mapped to that same instance, whatever public operation runs.
C4_MappingIsStable ==
    [][\A k \in IdKeys : pysBridge[k] # NoInst => pysBridge'[k] = pysBridge[k]]_vars

\* the task was issued after add_func(n, fn1) followed by add_func(n, fn2),
\* fn1 # fn2, these being the two latest registrations under its name
IssuedAfterOverwrite(t) ==
    /\ IsFunction(tasks[t].issPrev) /\ IsFunction(tasks[t].issCur)
    /\ tasks[t].issPrev # tasks[t].issCur

\* C5: in part_000, a call_func(n, ...) issued after add_func(n, fn1) followed
\* by add_func(n, fn2), fn1 # fn2 (and no add_func(n, ...) after it was
\* issued), invokes fn2 and not fn1.
C5_SecondRegistrationWins ==
    \A t \in NamedCalls :
        (IssuedAfterOverwrite(t) /\ Invoked(t) /\ ~tasks[t].later) =>
            /\ tasks[t].fn = tasks[t].issCur
            /\ tasks[t].fn # tasks[t].issPrev

\* C5 witness: a call issued after add_func(f, fn1); add_func(f, fn2) has
\* invoked fn2
C5_Witness ==
    \E t \in NamedCalls :
        /\ tasks[t].issPrev = "fn1" /\ tasks[t].issCur = "fn2"
        /\ ~tasks[t].later /\ tasks[t].fn = "fn2" /\ tasks[t].pc = "done"

\* the readiness signals of the loaded API, as <<instance, name>>
Signals ==
    IF api = "flat" THEN {<<0, s>> : s \in Names}
    ELSE IF api = "asset" THEN {<<i, "">> : i \in 1..Len(insts)}
    ELSE {<<i, n>> : i \in 1..Len(insts), n \in Names}
SignalAt(ins, ps, sg) ==
    IF api = "flat" THEN ps[sg[2]]
    ELSE IF api = "asset" THEN ins[sg[1]].promise
    ELSE ins[sg[1]].promise[sg[2]]
Resolved(sg) == SignalAt(insts, pysPromises, sg).state = "fulfilled"
SignalOf(t) == <<tasks[t].inst, tasks[t].sig>>
HasSignal(t) == SignalOf(t) \in Signals

\* C6: a readiness signal that is resolved stays resolved (every API), a name
\* of part_000 that holds a function keeps holding one, and a task is
\* suspended on a signal only while that signal is unresolved: a call on a
\* Ready name never waits for a registration again.
C6_ResolvedIsMonotonic ==
    /\ [][/\ \A sg \in Signals :
               Resolved(sg) => SignalAt(insts', pysPromises', sg).state = "fulfilled"
          /\ \A i \in 1..Len(insts), n \in Names :
               (api = "named" /\ has_func(i, n)) => IsFunction(insts'[i].funcs[n])]_vars
    /\ [](\A t \in TaskIds :
             (HasSignal(t) /\ tasks[t].pc = "suspended") => ~Resolved(SignalOf(t)))

\* C6 witness: a task issued on an already resolved signal ran to completion
\* without ever suspending, and the signal is still resolved
C6_Witness ==
    \E t \in TaskIds :
        /\ HasSignal(t) /\ Resolved(SignalOf(t))
        /\ ~WasReleased(t) /\ tasks[t].pc = "done"

\* the microtasks queued for task t
QueuedFor(t) == {k \in 1..Len(mq) : mq[k].t = t}

\* C7: resolving a signal again does not fail (add_func with a function in
\* part_000, resolve() of the pysbridge.js class, pys_resolve in the flat API),
\* and no task is released or invokes its procedure more than once.
C7_ResolveIsIdempotent ==
    /\ [][(\/ \E i \in 1..Len(insts), n \in Names, f \in Fns : add_func(i, n, f)
           \/ \E i \in 1..Len(insts) : Asset_resolve(i)
           \/ \E sg \in Names : pys_resolve(sg))
          => last'.err = NoErr]_vars
    /\ [](\A t \in TaskIds :
             /\ tasks[t].n <= 1
             /\ Cardinality(QueuedFor(t)) <= 1
             /\ tasks[t].pc \in {"suspended", "done", "rejected"} => QueuedFor(t) = {})

\* C7 witness: a task that was suspended, released, and whose signal was then
\* resolved a second time before it resumed, has run exactly once
C7_Witness ==
    \E t \in TaskIds :
        /\ WasReleased(t) /\ tasks[t].later
        /\ tasks[t].pc = "done"
        /\ tasks[t].kind = "call" => tasks[t].n = 1

\* C8: in part_000, a function stored under n leaves no call_func(n, ...)
\* suspended (one add_func releases them all), and of two calls that were
\* suspended on the same signal the one that started waiting first invokes
\* first.
C8_ReleasedInWaitOrder ==
    /\ \A t \in NamedCalls :
          insts[tasks[t].inst].funcs[tasks[t].name] # Undefined
              => tasks[t].pc # "suspended"
    /\ \A t1, t2 \in NamedCalls :
          (/\ t1 < t2
           /\ SignalOf(t1) = SignalOf(t2)
           /\ WasReleased(t1) /\ WasReleased(t2)
           /\ Invoked(t2)) => Invoked(t1)

\* C8 witness: two calls suspended on the same name were released together;
\* the first has invoked while the second is still queued
C8_Witness ==
    \E t1, t2 \in NamedCalls :
        /\ t1 < t2 /\ SignalOf(t1) = SignalOf(t2)
        /\ WasReleased(t1) /\ WasReleased(t2)
        /\ Invoked(t1) /\ ~Invoked(t2) /\ tasks[t2].pc = "call_queued"

\* C9: add_func(n, p) with a p that is not invocable fails and leaves the
\* function store, the readiness signals and every call_func as they were.
C9_NonInvocableRejected ==
    [][(\E i \in 1..Len(insts), n \in Names :
            add_func(i, n, NotFn) \/ Asset_add_func(i, n, NotFn))
       => (last'.err # NoErr /\ insts' = insts /\ tasks' = tasks)]_vars

\* C10 as stated: has_pys_bridge never fails; for every argument it returns
\* true or false, true exactly when an instance exists for the normalized id.
C10_HasNeverFails ==
    [][\A pysid \in IdInputs :
          has_pys_bridge(pysid) =>
             /\ last'.err = NoErr
             /\ last'.ret = RetBool(pysBridge[Normalized(pysid)] # NoInst)]_vars

\* C10 amended: for a string argument has_pys_bridge does not fail and returns
\* true exactly when an instance exists for the normalized id; for an argument
\* that is not a string it fails with "UUID must be a string."; it never
\* changes the instance mapping.
C10_HasFailsOnlyOnNonString ==
    [][\A pysid \in IdInputs :
          has_pys_bridge(pysid) =>
             /\ pysBridge' = pysBridge
             /\ IF pysid.type = "string"
                THEN /\ last'.err = NoErr
                     /\ last'.ret = RetBool(pysBridge[Normalized(pysid)] # NoInst)
                ELSE last'.err = "UUID must be a string."]_vars

\* C10 witness: has_pys_bridge("") has answered true for the default instance
C10_Witness ==
    /\ api = "named"
    /\ last.op = "has_pys_bridge" /\ last.ret = RetBool(TRUE)
    /\ pysBridge[pysBridgeGlobalName] # NoInst

\* C11: in both PysBridge classes, get_pys_bridge(id) for a string id with no
\* instance fails with the not-found error that names the (normalized) id;
\* get_pys_bridge and has_pys_bridge never change the instance mapping, whether
\* they succeed or fail; and the mapping changes in create_pys_bridge only.
C11_OnlyCreateAddsEntry ==
    [][/\ \A pysid \in StringIds :
             ((get_pys_bridge(pysid) \/ Asset_get_pys_bridge(pysid))
                /\ pysBridge[Normalized(pysid)] = NoInst)
             => last'.err = "Bridge id " \o Normalized(pysid) \o " not found."
       /\ (\E pysid \in IdInputs :
              get_pys_bridge(pysid) \/ Asset_get_pys_bridge(pysid) \/ has_pys_bridge(pysid))
             => pysBridge' = pysBridge
       /\ pysBridge' # pysBridge
             => \E pysid \in IdInputs :
                   create_pys_bridge(pysid) \/ Asset_create_pys_bridge(pysid)]_vars

\* the store operations of part_000 on instance i, with any arguments
StoreOpOn(i) ==
    \/ \E n \in Names, g \in Vals, f \in Setters : add_state(i, n, g, f)
    \/ \E n \in Names, v \in Vals : add_ref(i, n, v)
    \/ \E n \in Names, f \in Procedures : add_func(i, n, f)

\* C12: in part_000, add_state / add_ref / add_func on one instance leaves
\* has_state, has_ref and has_func of every other instance as they were, and
\* releases no call_func of another instance: its tasks stay as they are and
\* nothing is queued for them.
C12_InstancesAreIndependent ==
    [][\A i \in 1..Len(insts) :
          (/\ api = "named" /\ Len(insts) > 1
           /\ last'.op \in {"add_state", "add_ref", "add_func"}   \* implied by StoreOpOn
           /\ StoreOpOn(i)) =>
             \A j \in 1..Len(insts) \ {i} :
                /\ \A n \in Names :
                      /\ has_state(j, n)' = has_state(j, n)
                      /\ has_ref(j, n)' = has_ref(j, n)
                      /\ has_func(j, n)' = has_func(j, n)
                /\ \A t \in TaskIds :
                      tasks[t].inst = j
                         => tasks'[t] = tasks[t] /\ QueuedFor(t)' = QueuedFor(t)]_vars

\* C12 witness: add_func("f", fn1) ran on instance 1 and released its waiter;
\* instance 2 holds no function and its call_func("f", ...) is still suspended
C12_Witness ==
    /\ api = "named" /\ Len(insts) = 2
    /\ has_func(1, "f") /\ ~has_func(2, "f")
    /\ \E t \in NamedCalls : tasks[t].inst = 1 /\ WasReleased(t)
    /\ \E t \in NamedCalls :
          tasks[t].inst = 2 /\ tasks[t].name = "f" /\ tasks[t].pc = "suspended"

\* add_state(n, ...) was called on instance i, with whatever arguments
StateAdded(i, n) == n \in insts[i].added.states

\* C13: in part_000, for every instance and name n, has_state(n) is true
\* exactly when add_state(n, ...) has been called on that instance (false
\* before, true ever after, whatever getter value and setter were passed), and
\* state(n) and set_state(n, v) before the first add_state(n, ...) fail with
\* "State n not found." without invoking anything.
C13_HasStateTracksAddState ==
    /\ [](api = "named" =>
            \A i \in 1..Len(insts), n \in Names : has_state(i, n) <=> StateAdded(i, n))
    /\ [][\A i \in 1..Len(insts), n \in Names :
             (/\ api = "named" /\ ~StateAdded(i, n)
              /\ last'.op \in {"state", "set_state"}
              /\ (state(i, n) \/ \E v \in Vals : set_state(i, n, v)))
             => /\ last'.err = "State " \o n \o " not found."
                /\ setterCalls' = setterCalls]_vars

\* C13 witness: add_state("f", undefined, 42) ran on an instance, after a
\* state("f") on it had failed; has_state("f") is true
C13_Witness ==
    /\ api = "named"
    /\ \E i \in 1..Len(insts) :
          /\ StateAdded(i, "f") /\ has_state(i, "f")
          /\ insts[i].states["f"].getter = Undefined
          /\ insts[i].states["f"].setter = NotFn

\* the state slot n of instance i (i = 0: the flat __pysStates) in the given stores
StateSlot(ins, ps, i, n) == IF i = 0 THEN ps[n] ELSE ins[i].states[n]
\* the owners of a state store in the loaded API
StateOwners == IF api = "flat" THEN {0} ELSE 1..Len(insts)
\* add_state / pys_register_state on owner i
AddStateOp(i, n, g, f) ==
    IF i = 0 THEN pys_register_state(n, g, f)
    ELSE add_state(i, n, g, f) \/ Asset_add_state(i, n, g, f)
\* set_state / pys_set on owner i
SetStateOp(i, n, v) ==
    IF i = 0 THEN pys_set(n, v) ELSE set_state(i, n, v) \/ Asset_set_state(i, n, v)
\* state / pys_get on owner i
GetStateOp(i, n) ==
    IF i = 0 THEN pys_get(n) ELSE state(i, n) \/ Asset_state(i, n)

\* C14: in every API, add_state(n, g, setter) stores g; while a state n with a
\* procedure as setter is registered, set_state(n, v) does not fail, invokes
\* that setter with v exactly once (one invocation is appended to the log) and
\* leaves every state slot as it was; state(n) returns the stored getter
\* value; and a state slot changes in add_state only.  So state(n) returns g
\* after any number of set_state calls, until add_state(n, ...) runs again.
C14_SetStateKeepsGetter ==
    [][\A i \in StateOwners, n \in Names :
          /\ \A g \in Vals, f \in Setters :
                (last'.op \in {"add_state", "pys_register_state"} /\ AddStateOp(i, n, g, f))
                => StateSlot(insts', pysStates', i, n) = StateEntry(g, f)
          /\ \A v \in Vals :
                (/\ last'.op \in {"set_state", "pys_set"}
                 /\ StateSlot(insts, pysStates, i, n).def
                 /\ IsFunction(StateSlot(insts, pysStates, i, n).setter)
                 /\ SetStateOp(i, n, v))
                => /\ last'.err = NoErr
                   /\ setterCalls' = Append(setterCalls,
                         [by |-> StateSlot(insts, pysStates, i, n).setter, v |-> v])
                   /\ \A j \in StateOwners, m \in Names :
                         StateSlot(insts', pysStates', j, m) = StateSlot(insts, pysStates, j, m)
          /\ (/\ last'.op \in {"state", "pys_get"}
              /\ StateSlot(insts, pysStates, i, n).def
              /\ GetStateOp(i, n))
                => last'.ret = RetVal(StateSlot(insts, pysStates, i, n).getter)
          /\ StateSlot(insts', pysStates', i, n) # StateSlot(insts, pysStates, i, n)
                => \E g \in Vals, f \in Setters : AddStateOp(i, n, g, f)]_vars

\* C14 witness: after add_state("f", "1", fn1) and one set_state("f", "5"),
\* the setter was invoked once, with "5", and state("f") has returned "1"
C14_Witness ==
    /\ setterCalls = <<[by |-> "fn1", v |-> "5"]>>
    /\ last.op \in {"state", "pys_get"} /\ last.ret = RetVal("1")
    /\ \E i \in StateOwners : StateSlot(insts, pysStates, i, "f").getter = "1"

\* the ref slot n of owner i (i = 0: the flat __pysRefs), and its history
RefSlot(ins, ps, i, n) == IF i = 0 THEN ps[n] ELSE ins[i].refs[n]
RefAdded(i, n) == IF i = 0 THEN pysAdded.refs[n] ELSE insts[i].added.refs[n]
AddRefOp(i, n, v) ==
    IF i = 0 THEN pys_register_ref(n, v) ELSE add_ref(i, n, v) \/ Asset_add_ref(i, n, v)
GetRefOp(i, n) ==
    IF i = 0 THEN pys_ref(n) ELSE ref(i, n) \/ Asset_ref(i, n)

\* C15: in every API, for every name n and every value v (the undefined value
\* included): add_ref(n, v) makes the slot n present (has_ref(n) is true);
\* ref(n) after add_ref(n, v) does not fail and returns v; ref(n) fails with
\* not-found only when add_ref(n, ...) was never called.
C15_RefReturnsWhatWasAdded ==
    [][\A i \in StateOwners, n \in Names :
          /\ \A v \in Vals :
                (last'.op \in {"add_ref", "pys_register_ref"} /\ AddRefOp(i, n, v))
                => IsDefined(RefSlot(insts', pysRefs', i, n))
          /\ (last'.op \in {"ref", "pys_ref"} /\ GetRefOp(i, n))
                => IF RefAdded(i, n) = <<>>
                   THEN last'.err \in {"Var " \o n \o " not found.", "Ref " \o n \o " not found."}
                   ELSE last'.err = NoErr /\ last'.ret = RetVal(RefAdded(i, n)[1])]_vars

\* the pys_call_func invocations of the flat API
FlatCalls == {t \in TaskIds : api = "flat" /\ tasks[t].kind = "call"}
\* the promiseName arguments that are a non-empty string
NamedSignal(s) == s.type = "string" /\ s.v # ""
AllSigInputs == {Str(s) : s \in Names} \cup {Str(""), NonStr}

\* C16: flat API.  A signal becomes resolved in pys_resolve only, and a
\* pys_call_func(f, p, args) with p a non-empty string invokes nothing in the
\* call itself and has invoked nothing as long as p is unresolved, whether or
\* not f is registered.  With p empty or not a string the call does not wait:
\* in the call itself it invokes the function stored under f, once, with args,
\* or is rejected ("not function") when no function is stored under f.
C16_FlatCallWaitsForItsSignal ==
    /\ [](\A t \in FlatCalls :
             (tasks[t].sig # "" /\ ~Resolved(<<0, tasks[t].sig>>))
                => ~Invoked(t) /\ tasks[t].pc = "suspended")
    /\ [][/\ \A s \in Names :
                (api = "flat" /\ ~Resolved(<<0, s>>)
                   /\ pysPromises'[s].state = "fulfilled") => pys_resolve(s)
          /\ \A f \in Names, p \in AllSigInputs, a \in ArgLists :
                (last'.op = "pys_call_func" /\ pys_call_func(f, p, a)) =>
                   LET tk == tasks'[Len(tasks')] IN
                   IF NamedSignal(p)
                   THEN tk.sig = p.v /\ tk.n = 0 /\ tk.pc \in {"suspended", "wait_queued"}
                   ELSE IF IsFunction(pysFunctions[f])
                   THEN /\ tk.pc = "invoked" /\ tk.n = 1
                        /\ tk.fn = pysFunctions[f] /\ tk.got = a
                   ELSE tk.pc = "rejected" /\ tk.n = 0]_vars

\* C16 witness: one signal "f" gated calls to the two functions "f" and "g":
\* both calls suspended on it, pys_resolve("f") released them, both invoked
C16_Witness ==
    \E t1, t2 \in FlatCalls :
        /\ tasks[t1].name = "f" /\ tasks[t2].name = "g"
        /\ tasks[t1].sig = "f" /\ tasks[t2].sig = "f"
        /\ tasks[t1].relFn = ByResolve /\ tasks[t2].relFn = ByResolve
        /\ Invoked(t1) /\ Invoked(t2)

\* the task the step just started
NewestTask == tasks'[Len(tasks')]

\* C17: a resolve before any wait counts.  In part_000 add_func(n, fn) leaves
\* the signal of n resolved even when no promise existed for n, and a
\* call_func(n, ...) issued after an add_func(n, fn) is not suspended: its
\* continuation is queued at once and it goes on to invoke.  In the flat API
\* pys_resolve(p) leaves p resolved even when p was undefined, and a
\* pys_wait(p) issued on a resolved p is queued at once and completes.
C17_ResolveBeforeWaitCounts ==
    /\ [][/\ \A i \in 1..Len(insts), n \in Names, f \in Fns :
                (last'.op = "add_func" /\ add_func(i, n, f))
                => insts'[i].promise[n].state = "fulfilled"
          /\ \A i \in 1..Len(insts), n \in Names, a \in ArgLists :
                (/\ last'.op = "call_func" /\ api = "named"
                 /\ insts[i].hist[n].cur # Undefined
                 /\ call_func(i, n, a))
                => NewestTask.pc = "wait_queued" /\ mq' = Append(mq, [t |-> Len(tasks'), k |-> "wait"])
          /\ \A s \in Names :
                (last'.op = "pys_resolve" /\ pys_resolve(s))
                => pysPromises'[s].state = "fulfilled"
          /\ \A s \in Names :
                (last'.op = "pys_wait" /\ Resolved(<<0, s>>) /\ pys_wait(s))
                => NewestTask.pc = "wait_queued" /\ mq' = Append(mq, [t |-> Len(tasks'), k |-> "wait"])]_vars
    /\ \A t \in 1..MaxTasks :
          (t \in TaskIds /\ api \in {"named", "flat"} /\ tasks[t].pc = "wait_queued")
             ~> (t \in TaskIds /\ IF tasks[t].kind = "wait" THEN tasks[t].pc = "done"
                                  ELSE tasks[t].pc \in {"invoked", "done", "rejected"})

\* C17 witness: a pys_wait issued after pys_resolve on a signal that had no
\* promise yet (so the task never suspended and nothing released it) is done
C17_Witness ==
    \E t \in TaskIds :
        /\ api = "flat" /\ tasks[t].kind = "wait"
        /\ ~WasReleased(t) /\ ~tasks[t].later
        /\ tasks[t].pc = "done"

\* C18: in part_000, in every reachable state, for every instance and name n
\* the readiness signal of n is resolved exactly when has_func(n) is true; so
\* a call_func(n, ...) that is past its wait finds a function stored under n,
\* and a call that completed has invoked one: the branch of call_func that
\* skips the invocation is never taken.
C18_ResolvedIffHasFunc ==
    api = "named" =>
        /\ \A i \in 1..Len(insts), n \in Names :
              insts[i].promise[n].state = "fulfilled" <=> has_func(i, n)
        /\ \A t \in NamedCalls :
              /\ tasks[t].pc # "suspended" => has_func(tasks[t].inst, tasks[t].name)
              /\ tasks[t].pc = "done" => Invoked(t)
              /\ tasks[t].pc # "rejected"

\* C18 witness: on one instance "f" holds a function, its signal is resolved
\* and a call of it completed, while "g" holds none, its signal exists
\* unresolved and a call of it is suspended
C18_Witness ==
    /\ api = "named"
    /\ \E i \in 1..Len(insts) :
          /\ has_func(i, "f") /\ insts[i].promise["f"].state = "fulfilled"
          /\ ~has_func(i, "g") /\ insts[i].promise["g"].state = "pending"
          /\ \E t1, t2 \in NamedCalls :
                /\ tasks[t1].inst = i /\ tasks[t1].name = "f" /\ tasks[t1].pc = "done"
                /\ tasks[t2].inst = i /\ tasks[t2].name = "g" /\ tasks[t2].pc = "suspended"

\* the tasks suspended on a readiness signal
Suspended == {t \in TaskIds : tasks[t].pc = "suspended"}

\* C19: in part_000 the gate is per function name: add_func(n, fn) leaves
\* every call_func suspended on another name (or another instance) suspended,
\* with nothing queued for it.  In the pysbridge.js class the gate is one
\* signal per instance: resolve() releases every call_func suspended on that
\* instance, whatever its name, and add_func releases none.
C19_GatePerNameOrPerInstance ==
    [][/\ \A i \in 1..Len(insts), n \in Names, f \in Procedures :
             (last'.op = "add_func" /\ add_func(i, n, f)) =>
                \A t \in Suspended :
                   (tasks[t].inst # i \/ tasks[t].name # n)
                      => tasks'[t] = tasks[t] /\ QueuedFor(t)' = {}
       /\ \A i \in 1..Len(insts) :
             (last'.op = "resolve" /\ Asset_resolve(i)) =>
                \A t \in Suspended :
                   tasks[t].inst = i
                      => tasks'[t].pc = "wait_queued" /\ QueuedFor(t)' # {}
       /\ \A i \in 1..Len(insts), n \in Names, f \in Procedures :
             (last'.op = "add_func" /\ Asset_add_func(i, n, f))
                => tasks' = tasks /\ mq' = mq]_vars

\* C19 witness: in the pysbridge.js class two calls of different names were
\* suspended on one instance and one resolve() released them both
C19_Witness ==
    /\ api = "asset"
    /\ \E t1, t2 \in ClassCalls :
          /\ tasks[t1].inst = tasks[t2].inst
          /\ tasks[t1].name = "f" /\ tasks[t2].name = "g"
          /\ tasks[t1].relFn = ByResolve /\ tasks[t2].relFn = ByResolve
          /\ tasks[t1].pc = "wait_queued" /\ tasks[t2].pc = "wait_queued"

\* what is stored under the task's function name, in the store it calls into
StoredFor(t) ==
    IF api = "flat" THEN pysFunctions[tasks[t].name]
    ELSE insts[tasks[t].inst].funcs[tasks[t].name]

\* C20: the procedure is looked up when the continuation of the call runs.
\* When a call_func of part_000 resumes after its wait, a function is stored
\* under its name (the one passed to the latest add_func of that name, even if
\* another add_func released the call) and the call invokes exactly that
\* function, once, with its own arguments.  The calls of the pysbridge.js
\* class and of pys_call_func likewise take what is stored at that moment,
\* and are rejected, invoking nothing, when it is not a function.  No call
\* invokes more than once.
C20_LookupAtResumption ==
    /\ [][\A t \in TaskIds :
             (/\ mq # <<>> /\ Head(mq) = [t |-> t, k |-> "call"]
              /\ RunMicrotask) =>
                IF IsFunction(StoredFor(t))
                THEN /\ tasks'[t].pc = "invoked" /\ tasks'[t].n = 1
                     /\ tasks'[t].fn = StoredFor(t)
                     /\ tasks'[t].got = tasks[t].args
                     /\ api = "named" => tasks'[t].fn = insts[tasks[t].inst].hist[tasks[t].name].cur
                ELSE api # "named" /\ tasks'[t].pc = "rejected" /\ tasks'[t].n = 0]_vars
    /\ [](\A t \in TaskIds : tasks[t].n <= 1 /\ (Invoked(t) <=> tasks[t].fn # Undefined))

\* C20 witness: add_func("f", fn1) released a suspended call, add_func("f", fn2)
\* ran before the call's continuation, and the call invoked fn2
C20_Witness ==
    \E t \in NamedCalls :
        /\ tasks[t].relFn = "fn1" /\ tasks[t].later
        /\ tasks[t].fn = "fn2" /\ tasks[t].n = 1
====
